---- MODULE Spec2Model ----
(***************************************************************************)
(* Model of agent_tools/ib_paper_trading.py: the buy and sell tools of the *)
(* IB paper trading server, run by several concurrent callers on one       *)
(* signature (trading identity).  The shared state is the position ledger  *)
(* position.jsonl, the flock on .position.lock and the IF_TRADE flag; each *)
(* caller has the local variables of the call it is executing.             *)
(***************************************************************************)
EXTENDS Integers, Sequences, FiniteSets, TLC

\* ---- bounds of the model ------------------------------------------------
MaxCalls == 2        \* calls of buy/sell made in one behaviour, any of them
                     \* concurrently

\* the calls, numbered in the order in which they start
Threads == 1..MaxCalls
Symbols == {"XYZ", "ABC"}
Amounts == {-1, 0, 1, 2}
TradeActions == {"buy", "sell"}

\* ---- the collaborators' answers ----------------------------------------
\* trade.orderStatus.status, trade.orderStatus.avgFillPrice, ib.positions()
OrderStatuses ==
    {[status |-> "Filled", avgFillPrice |-> 3],
     [status |-> "Submitted", avgFillPrice |-> 0],
     [status |-> "Cancelled", avgFillPrice |-> 0]}
RemotePositions == {0, 2}

VARIABLES
    th,        \* th[t]: the locals of call t
    ledger,    \* position.jsonl: the sequence of records appended
    lock,      \* holder of the flock on .position.lock, 0 when free
    if_trade,  \* the IF_TRADE configuration flag
    calls,     \* calls started so far
    summary,   \* the locals of the get_ib_account_summary call
    acquired,  \* history: the calls in the order of their first lock
               \* acquisition (kept by SpecOrdered only)
    committed  \* history: the calls in the order of their appends (kept by
               \* SpecOrdered only)

vars == <<th, ledger, lock, if_trade, calls, summary, acquired, committed>>

\* ---- dictionaries -------------------------------------------------------
\* dict.get(k, default)
DictGet(d, k, default) == IF k \in DOMAIN d THEN d[k] ELSE default

\* d[k] = v on a copy of d
DictPut(d, k, v) == [x \in (DOMAIN d) \cup {k} |-> IF x = k THEN v ELSE d[x]]

EmptyDict == [x \in {} |-> 0]

\* ---- ledger store (tools.price_tools) -----------------------------------
\* the position before any record: {CASH: initial cash}, id 0
InitPosition == [x \in {"CASH"} |-> 4]

\* get_latest_position: the (positions, id) of a record with the highest id,
\* the initial position and id 0 when there is no record
LatestPositions(l) ==
    IF l = <<>>
    THEN {[positions |-> InitPosition, id |-> 0]}
    ELSE {[positions |-> l[i].positions, id |-> l[i].id] :
             i \in {i \in DOMAIN l : \A j \in DOMAIN l : l[j].id <= l[i].id}}

\* get_open_prices(today_date, [symbol])[f'{symbol}_price']
OpenPrice(symbol) == IF symbol = "XYZ" THEN 2 ELSE 1

\* ---- _execute_ib_order --------------------------------------------------
OrderAccepted(status) == status \in {"Filled", "PreSubmitted", "Submitted"}

ExecuteIbOrder(raised, status, avg, symbol, quantity, action) ==
    IF raised
    THEN [success |-> FALSE, error |-> "exception"]
    ELSE IF OrderAccepted(status)
         THEN [success |-> TRUE, order_id |-> "oid", symbol |-> symbol,
               action |-> action, quantity |-> quantity, status |-> status,
               fill_price |-> IF avg > 0 THEN avg ELSE 0]
         ELSE [success |-> FALSE, error |-> status, order_id |-> "oid"]

\* ---- locals of one call -------------------------------------------------
Fresh ==
    [pc |-> "idle", action |-> "buy", symbol |-> "XYZ", amount |-> 0,
     current_position |-> EmptyDict, current_action_id |-> 0,
     this_symbol_price |-> 0, execution_result |-> EmptyDict,
     new_position |-> EmptyDict, actual_price |-> 0,
     ib_position |-> 0,
     result |-> "none", session |-> FALSE,
     connects |-> 0, disconnects |-> 0, queries |-> 0, orders |-> 0,
     appended |-> 0]

\* ib.disconnect()
Disconnect(c) ==
    [c EXCEPT !.session = FALSE, !.disconnects = @ + 1]

\* return <result>: the call is over and its locals are gone; what stays is
\* what the returned dict carries: the new position and actual_price of a
\* successful call, the execution_details of a successful call and of an
\* "IB order failed" error, and the ib_position of an "Insufficient shares
\* in IB account" error
Return(c, res) ==
    [c EXCEPT !.pc = "done", !.result = res,
              !.current_position = EmptyDict, !.current_action_id = 0,
              !.this_symbol_price = 0,
              !.ib_position = IF res = "InsufficientSharesIB" THEN @ ELSE 0,
              !.new_position = IF res = "success" THEN @ ELSE EmptyDict,
              !.actual_price = IF res = "success" THEN @ ELSE 0,
              !.execution_result =
                  IF res \in {"success", "OrderFailed"} THEN @ ELSE EmptyDict]

\* a handler that returns the error and leaves the session open
HandlerWithoutDisconnect(c) == Return(c, "UnexpectedError")

\* except Exception as e: ib.disconnect(); return {"error": "Unexpected error"}
Handler(c) == Return(Disconnect(c), "UnexpectedError")

\* an amount check that lets 0 through
AmountNegative(amount) == amount < 0

\* if amount <= 0
AmountInvalid(amount) == amount <= 0

TypeOK ==
    /\ lock \in 0..MaxCalls
    /\ calls \in 0..MaxCalls
    /\ if_trade \in BOOLEAN
    /\ DOMAIN th = Threads

\* the locals of get_ib_account_summary before it is called
FreshSummary ==
    [pc |-> "idle", session |-> FALSE, connects |-> 0, disconnects |-> 0,
     result |-> "none"]

Init ==
    /\ th = [t \in Threads |-> Fresh]
    /\ ledger = <<>>
    /\ lock = 0
    /\ if_trade = FALSE
    /\ calls = 0
    /\ summary = FreshSummary
    /\ acquired = <<>>
    /\ committed = <<>>

\* buy/sell lines 161-170 / 283-292: the call starts and validates amount
Begin(t) ==
    /\ th[t].pc = "idle"
    /\ t = calls + 1
    /\ calls' = calls + 1
    /\ \E a \in TradeActions, s \in Symbols, n \in Amounts :
          LET c == [Fresh EXCEPT !.action = a, !.symbol = s, !.amount = n] IN
          th' = [th EXCEPT ![t] =
                    IF AmountInvalid(n)
                    THEN Return(c, "InvalidAmount")
                    ELSE [c EXCEPT !.pc = "connect"]]
    /\ UNCHANGED <<ledger, lock, if_trade>>

\* a connection failure that is swallowed: the call goes on without a session
ConnectIbIgnoringFailure(c, ok) ==
    IF ok
    THEN [c EXCEPT !.pc = "lock_read", !.session = TRUE, !.connects = @ + 1]
    ELSE [c EXCEPT !.pc = "lock_read"]

\* try: ib = _connect_ib() except ConnectionError: return {"error": ...}
ConnectIb(c, ok) ==
    IF ok
    THEN [c EXCEPT !.pc = "lock_read", !.session = TRUE, !.connects = @ + 1]
    ELSE Return(c, "ConnectionError")

\* _connect_ib, buy lines 172-176 / sell lines 294-298
Connect(t) ==
    /\ th[t].pc = "connect"
    /\ \E ok \in BOOLEAN : th' = [th EXCEPT ![t] = ConnectIb(@, ok)]
    /\ UNCHANGED <<ledger, lock, if_trade, calls>>

\* a flock that never blocks
LockAlwaysFree == TRUE

\* a flock that never returns
LockNeverFree == FALSE

\* fcntl.flock(fd, LOCK_EX) returns only when no other open file holds the
\* lock
LockFree == lock = 0

\* _Lock.__enter__ of the first with _position_lock (lines 180 / 302)
AcquireRead(t) ==
    /\ th[t].pc = "lock_read"
    /\ LockFree
    /\ lock' = t
    /\ th' = [th EXCEPT ![t].pc = "read"]
    /\ UNCHANGED <<ledger, if_trade, calls>>

\* get_latest_position under the lock, then _Lock.__exit__ (lines 180-181 /
\* 302-303); a failed read leaves through the handler
ReadLatest(t) ==
    /\ th[t].pc = "read"
    /\ lock = t
    /\ lock' = 0
    /\ \/ \E r \in LatestPositions(ledger) :
             th' = [th EXCEPT ![t] =
                       [@ EXCEPT !.pc = "validate",
                                 !.current_position = r.positions,
                                 !.current_action_id = r.id]]
       \/ th' = [th EXCEPT ![t] = Handler(@)]
    /\ UNCHANGED <<ledger, if_trade, calls>>

\* a buy validation without the cash check
BuyValidateWithoutCashCheck(c, priced) ==
    IF ~priced
    THEN Return(Disconnect(c), "PriceNotFound")
    ELSE [c EXCEPT !.pc = "execute", !.this_symbol_price = OpenPrice(c.symbol)]

\* buy lines 183-200: reference price, then the cash check
BuyValidate(c, priced) ==
    IF ~priced
    THEN Return(Disconnect(c), "PriceNotFound")
    ELSE LET price == OpenPrice(c.symbol)
             required_cash == price * c.amount
         IN IF DictGet(c.current_position, "CASH", 0) < required_cash
            THEN Return(Disconnect(c), "InsufficientCash")
            ELSE [c EXCEPT !.pc = "execute", !.this_symbol_price = price]

\* a sell validation without the two checks of the local holding
SellValidateRemoteOnly(c, priced, ib_position) ==
    IF ~priced
    THEN Return(Disconnect(c), "PriceNotFound")
    ELSE LET q == [c EXCEPT !.queries = @ + 1,
                            !.ib_position = ib_position,
                            !.this_symbol_price = OpenPrice(c.symbol)]
         IN IF ib_position < c.amount
            THEN Return(Disconnect(q), "InsufficientSharesIB")
            ELSE [q EXCEPT !.pc = "execute"]

\* a sell validation that queries the IB position and goes on whatever it is
SellValidateWithoutRemoteCheck(c, priced, ib_position) ==
    IF c.symbol \notin DOMAIN c.current_position
    THEN Return(Disconnect(c), "NoPosition")
    ELSE IF c.current_position[c.symbol] < c.amount
    THEN Return(Disconnect(c), "InsufficientShares")
    ELSE IF ~priced
    THEN Return(Disconnect(c), "PriceNotFound")
    ELSE [c EXCEPT !.queries = @ + 1, !.ib_position = ib_position,
                   !.this_symbol_price = OpenPrice(c.symbol),
                   !.pc = "execute"]

\* a sell validation that checks that the symbol is held, not how much of it
SellValidateKeyOnly(c, priced, ib_position) ==
    IF c.symbol \notin DOMAIN c.current_position
    THEN Return(Disconnect(c), "NoPosition")
    ELSE IF ~priced
    THEN Return(Disconnect(c), "PriceNotFound")
    ELSE LET q == [c EXCEPT !.queries = @ + 1,
                            !.ib_position = ib_position,
                            !.this_symbol_price = OpenPrice(c.symbol)]
         IN IF ib_position < c.amount
            THEN Return(Disconnect(q), "InsufficientSharesIB")
            ELSE [q EXCEPT !.pc = "execute"]

\* sell lines 305-337: local holding, reference price, then the IB position
SellValidate(c, priced, ib_position) ==
    IF c.symbol \notin DOMAIN c.current_position
    THEN Return(Disconnect(c), "NoPosition")
    ELSE IF c.current_position[c.symbol] < c.amount
    THEN Return(Disconnect(c), "InsufficientShares")
    ELSE IF ~priced
    THEN Return(Disconnect(c), "PriceNotFound")
    ELSE LET q == [c EXCEPT !.queries = @ + 1,
                            !.ib_position = ib_position,
                            !.this_symbol_price = OpenPrice(c.symbol)]
         IN IF ib_position < c.amount
            THEN Return(Disconnect(q), "InsufficientSharesIB")
            ELSE [q EXCEPT !.pc = "execute"]

Validate(t) ==
    /\ th[t].pc = "validate"
    /\ \E priced \in BOOLEAN, ib_position \in RemotePositions :
          th' = [th EXCEPT ![t] =
                    IF @.action = "buy"
                    THEN BuyValidate(@, priced)
                    ELSE SellValidate(@, priced, ib_position)]
    /\ UNCHANGED <<ledger, lock, if_trade, calls>>

\* a success check that is never taken
OrderNeverFailed(execution_result) == FALSE

\* if not execution_result.get("success") (lines 205 / 342)
OrderFailed(execution_result) == ~DictGet(execution_result, "success", FALSE)

\* a settlement at the reference price whatever the gateway filled at
ActualPriceReference(execution_result, this_symbol_price) == this_symbol_price

\* actual_price = execution_result.get("fill_price", this_symbol_price)
ActualPrice(execution_result, this_symbol_price) ==
    DictGet(execution_result, "fill_price", this_symbol_price)

\* a new position built from the two changed entries only, without the copy
\* of the current position
NewPositionWithoutCopy(c, actual_price) ==
    LET sign == IF c.action = "buy" THEN 1 ELSE -1 IN
    DictPut(DictPut(EmptyDict, "CASH",
                DictGet(c.current_position, "CASH", 0)
                    - sign * actual_price * c.amount),
            c.symbol, DictGet(c.current_position, c.symbol, 0) + sign * c.amount)

\* buy lines 215-222 / sell lines 352-359
NewPosition(c, actual_price) ==
    IF c.action = "buy"
    THEN LET p == DictPut(c.current_position, "CASH",
                     DictGet(c.current_position, "CASH", 0)
                         - actual_price * c.amount)
         IN DictPut(p, c.symbol, DictGet(p, c.symbol, 0) + c.amount)
    ELSE LET p == DictPut(c.current_position, c.symbol,
                     DictGet(c.current_position, c.symbol, 0) - c.amount)
         IN DictPut(p, "CASH", DictGet(p, "CASH", 0) + actual_price * c.amount)

\* buy lines 202-222 / sell lines 339-359: the order, then the new position
Reconcile(c, res) ==
    LET x == [c EXCEPT !.orders = @ + 1, !.execution_result = res] IN
    IF OrderFailed(res)
    THEN Return(Disconnect(x), "OrderFailed")
    ELSE LET actual_price == ActualPrice(res, c.this_symbol_price) IN
         [x EXCEPT !.pc = "lock_append",
                   !.actual_price = actual_price,
                   !.new_position = NewPosition(c, actual_price)]

Execute(t) ==
    /\ th[t].pc = "execute"
    /\ \E raised \in BOOLEAN, o \in OrderStatuses :
          th' = [th EXCEPT ![t] =
                    Reconcile(@, ExecuteIbOrder(raised, o.status,
                                  o.avgFillPrice, @.symbol,
                                  @.amount,
                                  IF @.action = "buy" THEN "BUY" ELSE "SELL"))]
    /\ UNCHANGED <<ledger, lock, if_trade, calls>>

\* _Lock.__enter__ of the second with _position_lock (lines 227 / 364)
AcquireAppend(t) ==
    /\ th[t].pc = "lock_append"
    /\ LockFree
    /\ lock' = t
    /\ th' = [th EXCEPT ![t].pc = "append"]
    /\ UNCHANGED <<ledger, if_trade, calls>>

\* the record of lines 229-242 / 366-379
Record(c) ==
    [id |-> c.current_action_id + 1,
     action |-> c.action, symbol |-> c.symbol, amount |-> c.amount,
     fill_price |-> c.actual_price,
     positions |-> c.new_position]

\* lines 227-244 / 364-381: the append under the lock, then _Lock.__exit__;
\* a failed open leaves through the handler with nothing written
AppendRecord(t) ==
    /\ th[t].pc = "append"
    /\ lock = t
    /\ lock' = 0
    /\ \/ /\ ledger' = Append(ledger, Record(th[t]))
          /\ th' = [th EXCEPT ![t] =
                       [@ EXCEPT !.pc = "finish", !.appended = @ + 1]]
       \/ /\ ledger' = ledger
          /\ th' = [th EXCEPT ![t] = Handler(@)]
    /\ UNCHANGED <<if_trade, calls>>

\* lines 246-257 / 383-394: write_config_value("IF_TRADE", True), disconnect
\* and return; a failed write leaves through the handler
Finish(t) ==
    /\ th[t].pc = "finish"
    /\ \/ /\ if_trade' = TRUE
          /\ th' = [th EXCEPT ![t] = Return(Disconnect(@), "success")]
       \/ /\ if_trade' = if_trade
          /\ th' = [th EXCEPT ![t] = Handler(@)]
    /\ UNCHANGED <<ledger, lock, calls>>

\* the steps of buy and sell leave the account summary call and the history
\* variables alone
Quiet == UNCHANGED <<summary, acquired, committed>>

Next ==
    \E t \in Threads :
        \/ Begin(t) /\ Quiet
        \/ Connect(t) /\ Quiet
        \/ AcquireRead(t) /\ Quiet
        \/ ReadLatest(t) /\ Quiet
        \/ Validate(t) /\ Quiet
        \/ Execute(t) /\ Quiet
        \/ AcquireAppend(t) /\ Quiet
        \/ AppendRecord(t) /\ Quiet
        \/ Finish(t) /\ Quiet

Spec == Init /\ [][Next]_vars

\* the steps of call t that wait for nothing: every gateway call, file access
\* and computation returns
Proceed(t) ==
    \/ Connect(t) /\ Quiet
    \/ ReadLatest(t) /\ Quiet
    \/ Validate(t) /\ Quiet
    \/ Execute(t) /\ Quiet
    \/ AppendRecord(t) /\ Quiet
    \/ Finish(t) /\ Quiet

\* the calls of Spec, each running on as long as it can, under a lock that
\* does not pass over a waiting call for ever
SpecFair ==
    /\ Spec
    /\ \A t \in Threads :
          /\ WF_vars(Proceed(t))
          /\ SF_vars(AcquireRead(t) /\ Quiet)
          /\ SF_vars(AcquireAppend(t) /\ Quiet)

\* a call that starts while no other call is in progress
BeginAlone(t) ==
    /\ \A u \in Threads : th[u].pc \in {"idle", "done"}
    /\ Begin(t)

\* the calls made one after the other, none overlapping another
NextAlone ==
    \E t \in Threads :
        \/ BeginAlone(t) /\ Quiet
        \/ Connect(t) /\ Quiet
        \/ AcquireRead(t) /\ Quiet
        \/ ReadLatest(t) /\ Quiet
        \/ Validate(t) /\ Quiet
        \/ Execute(t) /\ Quiet
        \/ AcquireAppend(t) /\ Quiet
        \/ AppendRecord(t) /\ Quiet
        \/ Finish(t) /\ Quiet

SpecAlone == Init /\ [][NextAlone]_vars

\* the calls of Spec, with the history of who took the lock first and of who
\* appended first
NextOrdered ==
    \E t \in Threads :
        \/ Begin(t) /\ Quiet
        \/ Connect(t) /\ Quiet
        \/ /\ AcquireRead(t)
           /\ acquired' = Append(acquired, t)
           /\ UNCHANGED <<summary, committed>>
        \/ ReadLatest(t) /\ Quiet
        \/ Validate(t) /\ Quiet
        \/ Execute(t) /\ Quiet
        \/ AcquireAppend(t) /\ Quiet
        \/ /\ AppendRecord(t)
           /\ committed' = IF th'[t].appended = 1
                            THEN Append(committed, t)
                            ELSE committed
           /\ UNCHANGED <<summary, acquired>>
        \/ Finish(t) /\ Quiet

SpecOrdered == Init /\ [][NextOrdered]_vars

\* ---- the append in two steps ----------------------------------------------
\* what position.jsonl ends with while f.write has put only a part of the
\* line of call t on the file
TornRecord(t) == [torn |-> TRUE, writer |-> t]

Torn(r) == "torn" \in DOMAIN r

\* lines 227-228 / 364-365 and the start of f.write (lines 244 / 381): under
\* the lock the file is opened and a part of the line is written; a failed
\* open leaves through the handler with nothing written
AppendWrite(t) ==
    /\ th[t].pc = "append"
    /\ lock = t
    /\ \/ /\ ledger' = Append(ledger, TornRecord(t))
          /\ th' = [th EXCEPT ![t].pc = "writing"]
          /\ lock' = lock
       \/ /\ ledger' = ledger
          /\ th' = [th EXCEPT ![t] = Handler(@)]
          /\ lock' = 0
    /\ UNCHANGED <<if_trade, calls>>

\* the end of f.write and of the with open block (lines 244 / 381): the line
\* is whole; then _Lock.__exit__
AppendFlush(t) ==
    /\ th[t].pc = "writing"
    /\ lock = t
    /\ ledger' = [ledger EXCEPT ![Len(ledger)] = Record(th[t])]
    /\ th' = [th EXCEPT ![t] = [@ EXCEPT !.pc = "finish", !.appended = @ + 1]]
    /\ lock' = 0
    /\ UNCHANGED <<if_trade, calls>>

\* the calls of Spec with the append of a record in two steps
NextTorn ==
    \E t \in Threads :
        \/ Begin(t) /\ Quiet
        \/ Connect(t) /\ Quiet
        \/ AcquireRead(t) /\ Quiet
        \/ ReadLatest(t) /\ Quiet
        \/ Validate(t) /\ Quiet
        \/ Execute(t) /\ Quiet
        \/ AcquireAppend(t) /\ Quiet
        \/ AppendWrite(t) /\ Quiet
        \/ AppendFlush(t) /\ Quiet
        \/ Finish(t) /\ Quiet

SpecTorn == Init /\ [][NextTorn]_vars

\* ---- get_ib_account_summary --------------------------------------------
\* the steps of the account summary leave buy and sell alone
TradeQuiet ==
    UNCHANGED <<th, ledger, lock, if_trade, calls, acquired, committed>>

\* line 416: the tool is called (again)
SummaryBegin ==
    /\ summary.pc \in {"idle", "done"}
    /\ summary' = [FreshSummary EXCEPT !.pc = "connect"]
    /\ TradeQuiet

\* line 417: ib = _connect_ib(); a ConnectionError goes to the except clause
\* of lines 450-454
SummaryConnect ==
    /\ summary.pc = "connect"
    /\ \E ok \in BOOLEAN :
          summary' = IF ok
                     THEN [summary EXCEPT !.pc = "account_values",
                                          !.session = TRUE,
                                          !.connects = @ + 1]
                     ELSE [summary EXCEPT !.pc = "done", !.result = "error"]
    /\ TradeQuiet

\* lines 419-425: ib.accountValues() and the float conversions; an exception
\* goes to the except clause, which returns the error
SummaryAccountValues ==
    /\ summary.pc = "account_values"
    /\ \E ok \in BOOLEAN :
          summary' = IF ok
                     THEN [summary EXCEPT !.pc = "positions"]
                     ELSE [summary EXCEPT !.pc = "done", !.result = "error"]
    /\ TradeQuiet

\* lines 427-448: ib.positions() and the conversions, then ib.disconnect()
\* and the success result; an exception goes to the except clause
SummaryPositions ==
    /\ summary.pc = "positions"
    /\ \E ok \in BOOLEAN :
          summary' = IF ok
                     THEN [summary EXCEPT !.pc = "done", !.result = "success",
                                          !.session = FALSE,
                                          !.disconnects = @ + 1]
                     ELSE [summary EXCEPT !.pc = "done", !.result = "error"]
    /\ TradeQuiet

\* the account summary tool called any number of times beside buy and sell
\* calls made one after the other
NextSummary ==
    \/ NextAlone
    \/ SummaryBegin
    \/ SummaryConnect
    \/ SummaryAccountValues
    \/ SummaryPositions

SpecSummary == Init /\ [][NextSummary]_vars

\* ---- replay (Position Projector) ----------------------------------------
\* the position after one record is applied to position p
ApplyRecord(p, r) ==
    IF r.action = "buy"
    THEN LET q == DictPut(p, r.symbol, DictGet(p, r.symbol, 0) + r.amount)
         IN DictPut(q, "CASH", DictGet(q, "CASH", 0) - r.fill_price * r.amount)
    ELSE LET q == DictPut(p, r.symbol, DictGet(p, r.symbol, 0) - r.amount)
         IN DictPut(q, "CASH", DictGet(q, "CASH", 0) + r.fill_price * r.amount)

\* replay: the fold of every record of l, in order, from the initial position
RECURSIVE Replay(_)
Replay(l) ==
    IF l = <<>>
    THEN InitPosition
    ELSE ApplyRecord(Replay(SubSeq(l, 1, Len(l) - 1)), l[Len(l)])

\* ---- claims -------------------------------------------------------------
Done(t) == th[t].pc = "done"

\* the reference cost of a buy call, as the cash check computes it
RequiredCash(t) == OpenPrice(th[t].symbol) * th[t].amount

\* C1: the ids of the records of the ledger are 1, 2, 3, ... in ledger order:
\* each record's id is the id of the record before it plus 1, with no gap and
\* no duplicate, also when calls overlap.
C1_SequenceIdsConsecutive ==
    \A i \in DOMAIN ledger : ledger[i].id = i

\* C2: when exactly two buy calls have run on the initial position, each
\* affordable alone (reference cost <= the initial cash) but not together,
\* they never both append a record of a buy filled at a price > 0 (no
\* double-spend): the later one reads the position written by the earlier
\* one and aborts.
C2_NoDoubleSpend ==
    \A a, b \in Threads :
        ( /\ a # b
          /\ \A t \in Threads \ {a, b} : th[t].pc = "idle"
          /\ Done(a) /\ Done(b)
          /\ th[a].action = "buy" /\ th[b].action = "buy"
          /\ RequiredCash(a) <= InitPosition["CASH"]
          /\ RequiredCash(b) <= InitPosition["CASH"]
          /\ RequiredCash(a) + RequiredCash(b) > InitPosition["CASH"] )
        => ~( /\ th[a].appended = 1 /\ th[a].actual_price > 0
              /\ th[b].appended = 1 /\ th[b].actual_price > 0 )

\* C3: in every reachable ledger state, replaying all the records from the
\* initial position gives the position snapshot of the last record.
C3_ReplayEqualsLastSnapshot ==
    ledger # <<>> => Replay(ledger) = ledger[Len(ledger)].positions

\* C4: a call that has read the latest position and has not yet appended or
\* aborted (it is validating, executing or about to append) holds the lock.
C4_LockHeldFromReadToAppend ==
    \A t \in Threads :
        th[t].pc \in {"validate", "execute", "lock_append"} => lock = t

\* C5: a successful call settles at, and records as fill_price, the gateway's
\* fill price when that is > 0 and the reference price otherwise.
C5_FillPriceFallsBackToReference ==
    \A t \in Threads :
        (Done(t) /\ th[t].result = "success")
        => th[t].actual_price =
              IF th[t].execution_result.fill_price > 0
              THEN th[t].execution_result.fill_price
              ELSE OpenPrice(th[t].symbol)
\* a sell call whose locally recorded holding of the symbol is absent or
\* smaller than the amount
LocalHoldingInsufficient(c) ==
    /\ c.action = "sell"
    /\ \/ c.symbol \notin DOMAIN c.current_position
       \/ c.current_position[c.symbol] < c.amount

C7_NonPositiveAmountRejected ==
    \A t \in Threads :
        (th[t].pc # "idle" /\ th[t].amount <= 0)
        => /\ Done(t) /\ th[t].result = "InvalidAmount"
           /\ th[t].connects = 0 /\ th[t].disconnects = 0
           /\ th[t].queries = 0 /\ th[t].orders = 0
           /\ th[t].appended = 0 /\ ~th[t].session

\* a buy of 0 shares and a sell of -1 shares have both returned
C7_Witness ==
    \E a, b \in Threads :
        /\ Done(a) /\ th[a].action = "buy" /\ th[a].amount = 0
        /\ Done(b) /\ th[b].action = "sell" /\ th[b].amount = -1

\* C8: every call that has returned has either returned success and appended
\* exactly one record, or returned an error and appended none.
C8_ErrorMeansNothingAppended ==
    \A t \in Threads :
        Done(t) => \/ th[t].result = "success" /\ th[t].appended = 1
                   \/ th[t].result # "success" /\ th[t].appended = 0

\* C9: a call whose order the gateway failed or rejected (or whose submission
\* raised) has returned the order-failed error with the session disconnected
\* once and no record appended.
C9_FailedOrderAppendsNothing ==
    \A t \in Threads :
        ( /\ th[t].orders > 0
          /\ ~DictGet(th[t].execution_result, "success", TRUE) )
        => /\ Done(t) /\ th[t].result = "OrderFailed"
           /\ ~th[t].session /\ th[t].disconnects = 1
           /\ th[t].orders = 1 /\ th[t].appended = 0

\* one call's order was rejected by the gateway and another's submission
\* raised; both have returned
C9_Witness ==
    \E a, b \in Threads :
        /\ Done(a) /\ th[a].result = "OrderFailed"
        /\ th[a].execution_result.error = "Cancelled"
        /\ Done(b) /\ th[b].result = "OrderFailed"
        /\ th[b].execution_result.error = "exception"

\* C10: a call with a valid amount that is past its connect step without a
\* session having been opened (the connection failed) has returned the
\* connection error, with no position query, no order and no record appended.
C10_ConnectionFailureAppendsNothing ==
    \A t \in Threads :
        ( /\ th[t].pc \notin {"idle", "connect"}
          /\ th[t].amount > 0
          /\ th[t].connects = 0 )
        => /\ Done(t) /\ th[t].result = "ConnectionError"
           /\ th[t].queries = 0 /\ th[t].orders = 0
           /\ th[t].disconnects = 0 /\ th[t].appended = 0

\* a buy whose connection failed has returned while the ledger holds the one
\* record of an earlier call
C10_Witness ==
    \E t \in Threads :
        /\ Done(t) /\ th[t].action = "buy" /\ th[t].amount > 0
        /\ th[t].result = "ConnectionError" /\ th[t].connects = 0
        /\ Len(ledger) = 1 /\ ledger[1].id = 1
\* position P after amount shares of symbol are bought (sign 1) or sold
\* (sign -1) at price p: only CASH and the symbol change
PositionAfter(P, symbol, amount, p, sign) ==
    [k \in (DOMAIN P) \cup {"CASH", symbol} |->
        IF k = "CASH" THEN DictGet(P, "CASH", 0) - sign * p * amount
        ELSE IF k = symbol THEN DictGet(P, symbol, 0) + sign * amount
        ELSE P[k]]

\* the step of call t appends to a ledger whose latest state is (P, n) one
\* record with id n + 1 and the snapshot PositionAfter(P, ...) at the
\* gateway's fill price
AppendsSettled(t, sign) ==
    \E r \in LatestPositions(ledger) :
        /\ LatestPositions(ledger) = {r}
        /\ Len(ledger') = Len(ledger) + 1
        /\ SubSeq(ledger', 1, Len(ledger)) = ledger
        /\ ledger'[Len(ledger')].id = r.id + 1
        /\ ledger'[Len(ledger')].positions =
              PositionAfter(r.positions, th[t].symbol, th[t].amount,
                            th[t].execution_result.fill_price, sign)

\* C11: when calls run one at a time, a buy filled at a price p > 0 appends
\* exactly one record, with id n + 1 and with the snapshot P where CASH is
\* decreased by p * amount, the symbol increased by amount and every other
\* symbol unchanged, (P, n) being the latest state before it; its later steps
\* append nothing more.
C11_BuyAloneSettles ==
    [][\A t \in Threads :
          /\ ( /\ th[t].pc = "append" /\ th[t].action = "buy"
               /\ th[t].execution_result.fill_price > 0
               /\ th'[t].appended = 1 )
             => AppendsSettled(t, 1)
          /\ (th[t].pc = "finish" /\ th[t].action = "buy" /\ th'[t] # th[t])
             => (ledger' = ledger /\ th'[t].appended = 1)]_vars

\* a buy filled at 3 has returned the position of the second record, which
\* has id 2 and still holds the other symbol bought by the first record
C11_Witness ==
    \E t \in Threads :
        /\ Done(t) /\ th[t].action = "buy" /\ th[t].result = "success"
        /\ th[t].execution_result.fill_price = 3
        /\ Len(ledger) = 2 /\ ledger[2].id = 2
        /\ ledger[1].symbol # ledger[2].symbol
        /\ ledger[2].positions = th[t].new_position
        /\ ledger[2].positions[ledger[1].symbol]
              = ledger[1].positions[ledger[1].symbol]
        /\ ledger[2].positions["CASH"]
              = ledger[1].positions["CASH"] - 3 * th[t].amount

\* C12: when calls run one at a time, a sell filled at a price p > 0 (which
\* may differ from the reference price) appends exactly one record, with id
\* n + 1 and with the snapshot P where the symbol is decreased by amount, CASH
\* increased by p * amount and every other symbol unchanged.
C12_SellAloneSettles ==
    [][\A t \in Threads :
          /\ ( /\ th[t].pc = "append" /\ th[t].action = "sell"
               /\ th[t].execution_result.fill_price > 0
               /\ th'[t].appended = 1 )
             => AppendsSettled(t, -1)
          /\ (th[t].pc = "finish" /\ th[t].action = "sell" /\ th'[t] # th[t])
             => (ledger' = ledger /\ th'[t].appended = 1)]_vars

\* a sell filled at 3, not at the reference price, has returned the position
\* of the second record, which has id 2
C12_Witness ==
    \E t \in Threads :
        /\ Done(t) /\ th[t].action = "sell" /\ th[t].result = "success"
        /\ th[t].execution_result.fill_price = 3
        /\ OpenPrice(th[t].symbol) # 3
        /\ Len(ledger) = 2 /\ ledger[2].id = 2
        /\ ledger[2].positions = th[t].new_position
        /\ ledger[2].positions[th[t].symbol]
              = ledger[1].positions[th[t].symbol] - th[t].amount
        /\ ledger[2].positions["CASH"]
              = ledger[1].positions["CASH"] + 3 * th[t].amount
\* the place of call t in the order of first lock acquisitions
AcquiredAt(t) == CHOOSE k \in DOMAIN acquired : acquired[k] = t

\* C13: records are committed in the order in which their calls first
\* acquired the lock: of two calls that both appended, the one that acquired
\* the lock first has the earlier record and the smaller id (committed[i] is
\* the call that appended ledger[i]).
C13_CommitOrderIsLockOrder ==
    \A i, j \in DOMAIN committed :
        AcquiredAt(committed[i]) < AcquiredAt(committed[j])
        => (i < j /\ ledger[i].id < ledger[j].id)
\* C14: in buy and sell a session is opened at most once, is never closed
\* more often than it was opened, and a call that has returned has closed
\* every session it opened exactly once (connects = disconnects, none open),
\* on every path.
C14_OneDisconnectPerConnect ==
    \A t \in Threads :
        /\ th[t].disconnects <= th[t].connects
        /\ th[t].connects <= 1
        /\ th[t].session <=> (th[t].connects = 1 /\ th[t].disconnects = 0)
        /\ Done(t) => (th[t].disconnects = th[t].connects /\ ~th[t].session)

\* one call returned through the exception handler after its append failed,
\* another returned success; each connected once and disconnected once
C14_Witness ==
    \E a, b \in Threads :
        /\ Done(a) /\ th[a].result = "UnexpectedError"
        /\ th[a].orders = 1 /\ th[a].appended = 0
        /\ th[a].connects = 1 /\ th[a].disconnects = 1
        /\ Done(b) /\ th[b].result = "success"
        /\ th[b].connects = 1 /\ th[b].disconnects = 1

\* C15: an account summary call that has returned has closed every session
\* it opened exactly once, also when fetching the account values or the
\* positions failed.
C15_SummaryDisconnects ==
    summary.pc = "done"
    => (summary.disconnects = summary.connects /\ ~summary.session)
\* the step of call t is a validation that aborts on a local check: the
\* reference price is missing, a buy's cash is below price * amount, or a
\* sell's local holding is absent or too small
LocalAbort(t) ==
    /\ th[t].pc = "validate"
    /\ th'[t] # th[t]
    /\ \/ th'[t].result = "PriceNotFound"
       \/ /\ th[t].action = "buy"
          /\ DictGet(th[t].current_position, "CASH", 0)
                < OpenPrice(th[t].symbol) * th[t].amount
       \/ LocalHoldingInsufficient(th[t])

LocalAbortResults ==
    {"PriceNotFound", "InsufficientCash", "NoPosition", "InsufficientShares"}

OtherErrorResults ==
    {"InvalidAmount", "ConnectionError", "PriceNotFound", "InsufficientCash",
     "NoPosition", "InsufficientShares", "InsufficientSharesIB",
     "OrderFailed", "UnexpectedError"}

\* C17: a call whose append fails after the gateway executed its order
\* returns an error of a kind no other failure returns, carrying the
\* gateway's execution details.
C17_AppendFailureIsDistinctError ==
    [][\A t \in Threads :
          (th[t].pc = "append" /\ th'[t].pc = "done")
          => /\ th'[t].result \notin OtherErrorResults \cup {"success"}
             /\ th'[t].execution_result = th[t].execution_result]_vars

\* C18: a sell call whose local holding is sufficient and whose remote
\* position, as reported by the gateway, is smaller than the amount returns
\* the IB insufficient-shares error carrying that remote position, with no
\* order submitted, no record appended and the session disconnected once.
C18_RemoteShortfallAborts ==
    [][\A t \in Threads :
          ( /\ th[t].pc = "validate" /\ th[t].action = "sell"
            /\ th'[t].queries = 1
            /\ th'[t].ib_position < th[t].amount )
          => /\ ~LocalHoldingInsufficient(th[t])
             /\ th'[t].pc = "done"
             /\ th'[t].result = "InsufficientSharesIB"
             /\ th'[t].orders = 0 /\ th'[t].appended = 0
             /\ th'[t].disconnects = 1 /\ ~th'[t].session
             /\ ledger' = ledger]_vars

\* a sell of shares the latest record holds has returned the IB
\* insufficient-shares error with the remote position 0
C18_Witness ==
    \E t \in Threads :
        /\ Done(t) /\ th[t].action = "sell"
        /\ th[t].result = "InsufficientSharesIB"
        /\ th[t].queries = 1 /\ th[t].ib_position = 0
        /\ th[t].orders = 0 /\ th[t].disconnects = 1
        /\ \A r \in LatestPositions(ledger) :
              DictGet(r.positions, th[t].symbol, 0) >= th[t].amount

\* C19: in every record of the ledger every symbol other than CASH has a
\* natural number of shares, whatever the interleaving of the calls.
C19_HoldingsNeverNegative ==
    \A i \in DOMAIN ledger :
        \A k \in (DOMAIN ledger[i].positions) \ {"CASH"} :
            ledger[i].positions[k] \in Nat

\* a sell has brought a holding down to 0
C19_Witness ==
    \E i \in DOMAIN ledger :
        /\ ledger[i].action = "sell"
        /\ ledger[i].positions[ledger[i].symbol] = 0

\* call t is inside a with _position_lock block
Holds(t) == th[t].pc \in {"read", "append"}

\* C20: at most one call is inside a with _position_lock block at any time,
\* the lock is held exactly by the call that is inside one, and a call that
\* has returned, on any path, does not hold it.
C20_LockExclusiveAndReleased ==
    /\ \A a, b \in Threads : (Holds(a) /\ Holds(b)) => a = b
    /\ \A t \in Threads : Holds(t) <=> lock = t
    /\ \A t \in Threads : Done(t) => lock # t

\* a call whose read of the latest position raised under the lock has
\* returned, and another call now holds the lock
C20_Witness ==
    \E a, b \in Threads :
        /\ Done(a) /\ th[a].result = "UnexpectedError"
        /\ th[a].connects = 1 /\ th[a].orders = 0
        /\ Holds(b) /\ lock = b

\* C21: every append to the ledger is made by the call that holds the lock:
\* a record that is only partly written is the last of the ledger and its
\* writer holds the lock, so no two appends overlap, and a call that reads
\* the latest position under the lock finds no partly written record.
C21_AppendsUnderLock ==
    /\ \A i \in DOMAIN ledger :
          Torn(ledger[i])
          => /\ i = Len(ledger)
             /\ lock = ledger[i].writer
             /\ th[ledger[i].writer].pc = "writing"
    /\ \A t \in Threads :
          th[t].pc = "writing"
          => (lock = t /\ ledger # <<>> /\ Torn(ledger[Len(ledger)]))
    /\ \A t \in Threads :
          th[t].pc = "read" => \A i \in DOMAIN ledger : ~Torn(ledger[i])

\* a record is partly written while another call, its order executed, waits
\* for the lock to append its own
C21_Witness ==
    /\ ledger # <<>>
    /\ Torn(ledger[Len(ledger)])
    /\ \E t \in Threads : th[t].pc = "lock_append" /\ th[t].orders = 1

\* C22: under a fair lock and with gateway calls that always return, every
\* call of buy or sell that has started eventually returns a result, with
\* the lock not held by it and its session disconnected, however many calls
\* run at once: no call waits for ever.
C22_EveryCallReturns ==
    \A t \in Threads :
        (th[t].pc # "idle")
        ~> (Done(t) /\ th[t].result # "none" /\ lock # t /\ ~th[t].session)

\* two calls that both waited for the lock to append have both returned
\* success, and the lock is free
C22_Witness ==
    /\ \A t \in Threads :
          /\ Done(t) /\ th[t].result = "success"
          /\ th[t].current_action_id = 0 /\ ~th[t].session
    /\ \A i \in DOMAIN ledger : ledger[i].id = 1
    /\ Len(ledger) = MaxCalls
    /\ lock = 0
====
